---- MODULE Spec2Model ----
(***************************************************************************)
(* Model of generator/generator.go of protoc-gen-grpc-gateway-ts: the      *)
(* construction of the generator (New) and one run of Generate, with       *)
(* generateFile and generateFetchModule.                                   *)
(*                                                                         *)
(* Text (file contents, rendered output) is a sequence of one-character    *)
(* strings, so that strings.TrimSpace and the byte comparison of the       *)
(* helper module are computed, not assumed.  Names and paths are atomic    *)
(* strings.  An optional value (a Go pointer that may be nil) is a         *)
(* sequence of length 0 or 1.  A character that a TLA+ string cannot hold   *)
(* is written as the name of its code point, "U+00A0".                     *)
(***************************************************************************)
EXTENDS Integers, Sequences, FiniteSets

VARIABLES
    pc,           \* position of the run: "New", "Analyse", "Loop", "Done"
    paramsMap,    \* the option map handed to New
    req,          \* the CodeGeneratorRequest handed to Generate
    t,            \* the generator built by New: <<>> (nil) or <<[Registry, EnableStylingCheck]>>
    filesData,    \* result of Registry.Analyse, in the order the loop ranges over it
    i,            \* index of the next element of filesData the loop visits
    resp,         \* resp.File, the entries appended so far
    needToGenerateFetchModule,
    lastGen,      \* the most recent generateFile call: <<>> or <<[fileData, out, generated]>>,
                  \* out the renderer's answer when the template was executed
    fetchCalls,   \* the generateFetchModule calls of this run, in order: whether the
                  \* template failed, else what the probe of the path answered, and the result
    ret           \* what New / Generate returned: [returned, hasResp, File, err]

vars == <<pc, paramsMap, req, t, filesData, i, resp, needToGenerateFetchModule,
          lastGen, fetchCalls, ret>>

-----------------------------------------------------------------------------
(* Bounds *)

\* largest number of proto files in a request
MaxFiles == 2

\* longest text the external renderer returns for one file
MaxLen == 2

-----------------------------------------------------------------------------
(* Text *)

\* the characters strings.TrimSpace removes, those of unicode.IsSpace:
\* '\t', '\n', '\v', '\f', '\r', ' ', U+0085, U+00A0 and the other code
\* points with the Unicode White_Space property
White ==
    {" ", "\n", "\t", "\r", "\f", "U+000B", "U+0085", "U+00A0",
     "U+1680", "U+2000", "U+2001", "U+2002", "U+2003", "U+2004", "U+2005",
     "U+2006", "U+2007", "U+2008", "U+2009", "U+200A", "U+2028", "U+2029",
     "U+202F", "U+205F", "U+3000"}

\* the characters rendered text is made of
Chars == {"x", "\n"}

Texts(n) == UNION {[1..k -> Chars] : k \in 0..n}

\* rendered texts with white space other than ' ' and '\n'
UnicodeTexts == { <<"\f", "x", "U+000B">>, <<"U+00A0", "x", "U+0085">> }

RECURSIVE TrimLeft(_)
TrimLeft(s) == IF s = <<>> \/ Head(s) \notin White THEN s ELSE TrimLeft(Tail(s))

RECURSIVE TrimRight(_)
TrimRight(s) ==
    IF s = <<>> \/ s[Len(s)] \notin White THEN s ELSE TrimRight(SubSeq(s, 1, Len(s) - 1))

\* variant of TrimSpace: trailing white space only
TrimSpaceRightOnly(s) == TrimRight(s)

\* strings.TrimSpace
TrimSpace(s) == TrimLeft(TrimRight(s))

\* "export default {}\n", what generateFile writes for an empty file
EmptyFileText ==
    <<"e","x","p","o","r","t"," ","d","e","f","a","u","l","t"," ","{","}","\n">>

-----------------------------------------------------------------------------
(* Options and construction *)

EnableStylingCheckOption == "enable_styling_check"

OptionValues == {"true", "false"}

\* the option maps New is called with
ParamsMaps ==
    {[k \in {} |-> ""], [k \in {"use_proto_names"} |-> "true"]}
    \cup [{EnableStylingCheckOption} -> OptionValues]

\* variant of enableStylingCheck: on when the option is absent
enableStylingCheckDefaultTrue(m) ==
    IF EnableStylingCheckOption \in DOMAIN m THEN m[EnableStylingCheckOption] = "true" ELSE TRUE

\* New, lines 39-44
enableStylingCheck(m) ==
    IF EnableStylingCheckOption \in DOMAIN m THEN m[EnableStylingCheckOption] = "true" ELSE FALSE

-----------------------------------------------------------------------------
(* Requests *)

Names == <<"a.proto", "b.proto", "c.proto">>

\* the declarations of one proto file; a service is the sequence of its
\* methods, a method is TRUE when it carries an HTTP binding
FileKinds == {
    [Messages |-> 0, Enums |-> 0, Services |-> <<>>],
    [Messages |-> 1, Enums |-> 0, Services |-> <<>>],
    [Messages |-> 0, Enums |-> 0, Services |-> << <<FALSE>> >>],
    [Messages |-> 0, Enums |-> 1, Services |-> << <<TRUE>>, <<FALSE, TRUE>> >>] }

Range(s) == {s[k] : k \in DOMAIN s}

NoDup(s) == \A k, l \in DOMAIN s : s[k] = s[l] => k = l

\* the sequences without repetition over the set S
Orderings(S) == {s \in UNION {[1..k -> S] : k \in 0..Cardinality(S)} : NoDup(s)}

\* requests: n files named Names[1..n], each with some declarations, and a
\* file-to-generate list naming some of them in any order
Requests ==
    UNION {
        { [ProtoFile |-> [k \in 1..n |-> [Name |-> Names[k], Decl |-> d[k]]],
           FileToGenerate |-> g] :
             d \in [1..n -> FileKinds], g \in Orderings({Names[k] : k \in 1..n}) }
        : n \in 0..MaxFiles }

-----------------------------------------------------------------------------
(* Registry and data.File: the parts of the repository Generate calls *)

\* the output file name Analyse derives from a proto file's path
TSFileName(name) ==
    CASE name = "a.proto" -> "a.pb.ts"
      [] name = "b.proto" -> "b.pb.ts"
      [] name = "c.proto" -> "c.pb.ts"

\* the File IR Analyse builds for one proto file
AnalyseFile(pf) ==
    [Name |-> pf.Name, TSFileName |-> TSFileName(pf.Name),
     Messages |-> pf.Decl.Messages, Enums |-> pf.Decl.Enums,
     Services |-> pf.Decl.Services, EnableStylingCheck |-> FALSE]

\* Registry.Analyse: one File IR per file of the request, in request order
Analyse(r) == [k \in 1..Len(r.ProtoFile) |-> AnalyseFile(r.ProtoFile[k])]

\* Registry.IsFileToGenerate
IsFileToGenerate(registry, name) == name \in registry.filesToGenerate

\* a service with at least one HTTP-bound method
HasBoundMethod(service) == \E k \in DOMAIN service : service[k]

\* data.Services.NeedsFetchModule
NeedsFetchModule(services) == \E k \in DOMAIN services : HasBoundMethod(services[k])

\* data.File.IsEmpty
IsEmpty(fileData) ==
    /\ fileData.Messages = 0
    /\ fileData.Enums = 0
    /\ ~ \E k \in DOMAIN fileData.Services : HasBoundMethod(fileData.Services[k])

\* what the fetch module template renders to; it is a fixed template whose
\* only input is EnableStylingCheck
FetchModuleTemplate(styling) ==
    IF styling THEN <<"\n", "x", " ", "x", "\n">> ELSE <<"\n", "x", "\n">>

\* the path of the fetch module, Join(FetchModuleDirectory, FetchModuleFilename),
\* for the registry's default directory "." and file name
FetchModuleFileName == "fetch.pb.ts"

-----------------------------------------------------------------------------
(* What the environment answers *)

\* the renderer's answer for one file: an error, or a text
RenderOutcomes ==
    {[err |-> TRUE, text |-> <<>>]}
    \cup {[err |-> FALSE, text |-> x] : x \in Texts(MaxLen) \cup UnicodeTexts}

\* contents a file at the fetch module's path may have
ExistingContents ==
    UNION {
        { TrimSpace(FetchModuleTemplate(b)),
          TrimSpace(FetchModuleTemplate(b)) \o <<"\n">> } : b \in BOOLEAN }
    \cup { <<>> }

\* what os.Stat and os.ReadFile answer at the fetch module's path
Probes ==
    { [statErr |-> "ErrNotExist", readErr |-> "nil", data |-> <<>>],
      [statErr |-> "EACCES", readErr |-> "nil", data |-> <<>>],
      [statErr |-> "nil", readErr |-> "EISDIR", data |-> <<>>] }
    \cup { [statErr |-> "nil", readErr |-> "nil", data |-> c] : c \in ExistingContents }

-----------------------------------------------------------------------------
(* generateFile and generateFetchModule *)

\* a function's result: the optional response file, the error ("nil" for
\* none), and the data the template was executed with, if it was executed
Result(file, err, executed) == [file |-> file, err |-> err, executed |-> executed]

generateFile(fileData, out) ==
    IF IsEmpty(fileData)
    THEN Result(<<[Name |-> fileData.TSFileName, Content |-> TrimSpace(EmptyFileText)]>>,
                "nil", <<>>)
    ELSE IF out.err
         THEN Result(<<>>, "error generating ts file", <<fileData>>)
         ELSE Result(<<[Name |-> fileData.TSFileName, Content |-> TrimSpace(out.text)]>>,
                     "nil", <<fileData>>)

\* variant of StatFatal: every stat error ends the run
StatFatalAlways(statErr) == statErr # "nil"

\* line 132: the stat errors that end the run
StatFatal(statErr) == statErr # "nil" /\ statErr # "ErrNotExist"

\* variant of SameContent: the existing content is trimmed before comparing
SameContentTrimmed(originContent, content) == TrimSpace(originContent) = content

\* line 144
SameContent(originContent, content) == originContent = content

generateFetchModule(gen, execErr, probe) ==
    LET data == [EnableStylingCheck |-> gen.EnableStylingCheck]
        content == TrimSpace(FetchModuleTemplate(data.EnableStylingCheck))
        originContent == IF probe.statErr = "nil" THEN probe.data ELSE <<>>
    IN  IF execErr
        THEN Result(<<>>, "error generating fetch module at", <<data>>)
        ELSE IF StatFatal(probe.statErr)
        THEN Result(<<>>, probe.statErr, <<data>>)
        ELSE IF probe.statErr = "nil" /\ probe.readErr # "nil"
        THEN Result(<<>>, probe.readErr, <<data>>)
        ELSE IF SameContent(originContent, content)
        THEN Result(<<>>, "nil", <<data>>)
        ELSE Result(<<[Name |-> FetchModuleFileName, Content |-> content]>>, "nil", <<data>>)

-----------------------------------------------------------------------------
(* Generate *)

\* variant of SkipFile: no file is skipped
SkipFileNever(registry, fileData) == FALSE

\* lines 67-70: the loop skips the file
SkipFile(registry, fileData) == ~ IsFileToGenerate(registry, fileData.Name)

\* variant of NextNeedFetch: the last file decides
NextNeedFetchLast(need, fileData) == NeedsFetchModule(fileData.Services)

\* line 78
NextNeedFetch(need, fileData) == need \/ NeedsFetchModule(fileData.Services)

\* variant of AppendFetch: one fetch module entry per generated file
AppendFetchPerFile(files, generatedFetch) ==
    IF generatedFetch # <<>>
    THEN files \o [k \in 1..Len(files) |-> generatedFetch[1]]
    ELSE files

\* variant of AppendFetch: the fetch module entry goes first
AppendFetchFirst(files, generatedFetch) ==
    IF generatedFetch # <<>> THEN <<generatedFetch[1]>> \o files ELSE files

\* lines 90-92
AppendFetch(files, generatedFetch) ==
    IF generatedFetch # <<>> THEN Append(files, generatedFetch[1]) ELSE files

\* variant of ReturnError: the entries produced so far are returned with the error
ReturnErrorPartial(files, err) ==
    [returned |-> TRUE, hasResp |-> TRUE, File |-> files, err |-> err]

\* the error returns of New and Generate: no response, the wrapped error
ReturnError(files, err) == [returned |-> TRUE, hasResp |-> FALSE, File |-> <<>>, err |-> err]

\* line 94
ReturnResp(files) == [returned |-> TRUE, hasResp |-> TRUE, File |-> files, err |-> "nil"]

NotReturned == [returned |-> FALSE, hasResp |-> FALSE, File |-> <<>>, err |-> "nil"]

Init ==
    /\ pc = "New"
    /\ paramsMap \in ParamsMaps
    /\ req \in Requests
    /\ t = <<>>
    /\ filesData = <<>>
    /\ i = 1
    /\ resp = <<>>
    /\ needToGenerateFetchModule = FALSE
    /\ lastGen = <<>>
    /\ fetchCalls = <<>>
    /\ ret = NotReturned

\* New, lines 33-50
New ==
    /\ pc = "New"
    /\ \E registryErr \in BOOLEAN :
         IF registryErr
         THEN /\ ret' = ReturnError(<<>>, "error instantiating a new registry")
              /\ pc' = "Done"
              /\ t' = t
         ELSE /\ t' = <<[Registry |-> [filesToGenerate |-> {}],
                         EnableStylingCheck |-> enableStylingCheck(paramsMap)]>>
              /\ pc' = "Analyse"
              /\ ret' = ret
    /\ UNCHANGED <<paramsMap, req, filesData, i, resp, needToGenerateFetchModule,
                   lastGen, fetchCalls>>

\* Generate, lines 54-63
GenerateAnalyse ==
    /\ pc = "Analyse"
    /\ \E analyseErr \in BOOLEAN :
         IF analyseErr
         THEN /\ ret' = ReturnError(<<>>, "error analysing proto files")
              /\ pc' = "Done"
              /\ UNCHANGED <<t, filesData>>
         ELSE /\ filesData' = Analyse(req)
              /\ t' = <<[t[1] EXCEPT !.Registry.filesToGenerate = Range(req.FileToGenerate)]>>
              /\ pc' = "Loop"
              /\ ret' = ret
    /\ i' = 1
    /\ resp' = <<>>
    /\ needToGenerateFetchModule' = FALSE
    /\ UNCHANGED <<paramsMap, req, lastGen, fetchCalls>>

\* Generate, lines 65-79: one iteration of the loop
GenerateLoop ==
    /\ pc = "Loop"
    /\ i <= Len(filesData)
    /\ LET fileData == [filesData[i] EXCEPT !.EnableStylingCheck = t[1].EnableStylingCheck]
       IN  /\ filesData' = [filesData EXCEPT ![i] = fileData]
           /\ IF SkipFile(t[1].Registry, fileData)
              THEN /\ i' = i + 1
                   /\ UNCHANGED <<pc, resp, needToGenerateFetchModule, lastGen, ret>>
              ELSE \E out \in RenderOutcomes :
                     LET generated == generateFile(fileData, out)
                     IN  /\ lastGen' = <<[fileData |-> fileData,
                                          out |-> IF generated.executed # <<>>
                                                  THEN <<out>> ELSE <<>>,
                                          generated |-> generated]>>
                         /\ IF generated.err # "nil"
                            THEN /\ ret' = ReturnError(resp, "error generating file")
                                 /\ pc' = "Done"
                                 /\ UNCHANGED <<i, resp, needToGenerateFetchModule>>
                            ELSE /\ resp' = Append(resp, generated.file[1])
                                 /\ needToGenerateFetchModule' =
                                        NextNeedFetch(needToGenerateFetchModule, fileData)
                                 /\ i' = i + 1
                                 /\ UNCHANGED <<pc, ret>>
    /\ UNCHANGED <<paramsMap, req, t, fetchCalls>>

\* Generate, lines 81-94: after the loop
GenerateFinish ==
    /\ pc = "Loop"
    /\ i > Len(filesData)
    /\ pc' = "Done"
    /\ IF needToGenerateFetchModule
       THEN \E execErr \in BOOLEAN, probe \in Probes :
              LET generatedFetch == generateFetchModule(t[1], execErr, probe)
              IN  /\ fetchCalls' = Append(fetchCalls,
                        [execErr |-> execErr,
                         probe |-> IF execErr THEN <<>> ELSE <<probe>>,
                         generated |-> generatedFetch])
                  /\ IF generatedFetch.err # "nil"
                     THEN /\ ret' = ReturnError(resp, "error generating fetch module")
                          /\ resp' = resp
                     ELSE /\ resp' = AppendFetch(resp, generatedFetch.file)
                          /\ ret' = ReturnResp(resp')
       ELSE /\ ret' = ReturnResp(resp)
            /\ UNCHANGED <<resp, fetchCalls>>
    /\ UNCHANGED <<paramsMap, req, t, filesData, i, needToGenerateFetchModule, lastGen>>

Next == New \/ GenerateAnalyse \/ GenerateLoop \/ GenerateFinish

Spec == Init /\ [][Next]_vars

TypeOK ==
    /\ pc \in {"New", "Analyse", "Loop", "Done"}
    /\ Len(t) <= 1
    /\ i \in 1..(MaxFiles + 1)
    /\ Len(resp) <= MaxFiles + 1
    /\ needToGenerateFetchModule \in BOOLEAN
    /\ Len(fetchCalls) <= 1

-----------------------------------------------------------------------------
(* Properties *)

\* Generate returned a response
Success == ret.returned /\ ret.hasResp

\* New or Generate returned an error
Failed == ret.returned /\ ret.err # "nil"

\* the number of entries of files named n
Count(files, n) == Cardinality({k \in DOMAIN files : files[k].Name = n})

\* the names the request designates to generate
Designated == Range(req.FileToGenerate)

\* a proto file of the request declares a service with an HTTP-bound method
DeclaresBoundService(pf) ==
    \E k \in DOMAIN pf.Decl.Services :
        \E m \in DOMAIN pf.Decl.Services[k] : pf.Decl.Services[k][m]

\* the number of services with an HTTP-bound method a proto file declares
BoundServices(pf) ==
    Cardinality({k \in DOMAIN pf.Decl.Services :
                    \E m \in DOMAIN pf.Decl.Services[k] : pf.Decl.Services[k][m]})

\* some designated file declares a service with an HTTP-bound method
DesignatedNeedsFetch ==
    \E k \in DOMAIN req.ProtoFile :
        req.ProtoFile[k].Name \in Designated /\ DeclaresBoundService(req.ProtoFile[k])

\* the loop of Generate has visited every analysed file
LoopCompleted ==
    /\ pc \in {"Loop", "Done"}
    /\ ret.err \notin {"error instantiating a new registry", "error analysing proto files"}
    /\ i > Len(filesData)

\* C1: in a successful response every designated name has exactly one entry,
\* and every entry other than the fetch module is the entry of a designated
\* name; a file that was only analysed has none.
C1_OneEntryPerDesignated ==
    Success =>
        /\ \A n \in Designated : Count(ret.File, TSFileName(n)) = 1
        /\ \A k \in DOMAIN req.ProtoFile :
              req.ProtoFile[k].Name \notin Designated
                  => Count(ret.File, TSFileName(req.ProtoFile[k].Name)) = 0
        /\ \A k \in DOMAIN ret.File :
              \/ ret.File[k].Name = FetchModuleFileName
              \/ \E n \in Designated : ret.File[k].Name = TSFileName(n)

C1_Witness ==
    /\ Success
    /\ Designated # {}
    /\ \E k \in DOMAIN req.ProtoFile :
          /\ req.ProtoFile[k].Name \notin Designated
          /\ req.ProtoFile[k].Decl.Messages > 0
    /\ Len(ret.File) = Cardinality(Designated)

\* C2: in a successful response the entries of two designated files are in
\* the order of their names in the file-to-generate list.
C2_FileToGenerateOrder ==
    Success =>
        \A a, b \in DOMAIN req.FileToGenerate :
            a < b =>
                \A k, l \in DOMAIN ret.File :
                    ( /\ ret.File[k].Name = TSFileName(req.FileToGenerate[a])
                      /\ ret.File[l].Name = TSFileName(req.FileToGenerate[b]) ) => k < l

\* C3: once the loop has visited every file, the flag is on exactly when a
\* designated file declares a service with an HTTP-bound method, and
\* generateFetchModule is called exactly then; it is never called otherwise.
C3_FetchIffDesignatedNeeds ==
    /\ LoopCompleted => (needToGenerateFetchModule <=> DesignatedNeedsFetch)
    /\ (LoopCompleted /\ pc = "Done") => (fetchCalls # <<>> <=> DesignatedNeedsFetch)
    /\ fetchCalls # <<>> => DesignatedNeedsFetch

C3_Witness ==
    /\ Success
    /\ fetchCalls = <<>>
    /\ \E k \in DOMAIN req.ProtoFile :
          req.ProtoFile[k].Name \notin Designated /\ DeclaresBoundService(req.ProtoFile[k])
    /\ \E k \in DOMAIN req.ProtoFile :
          /\ req.ProtoFile[k].Name \in Designated
          /\ req.ProtoFile[k].Decl.Services = << <<FALSE>> >>

\* C4: a response holds at most one fetch module entry and the fetch module
\* is rendered at most once in a run, exactly once in a successful run in
\* which a designated file needs it.
C4_HelperSingleton ==
    /\ Count(resp, FetchModuleFileName) <= 1
    /\ Count(ret.File, FetchModuleFileName) <= 1
    /\ Len(fetchCalls) <= 1
    /\ (Success /\ DesignatedNeedsFetch) => Len(fetchCalls) = 1

C4_Witness ==
    /\ Success
    /\ Cardinality({k \in DOMAIN req.ProtoFile :
            req.ProtoFile[k].Name \in Designated /\ BoundServices(req.ProtoFile[k]) > 0}) >= 2
    /\ \E k, l \in DOMAIN req.ProtoFile :
          /\ k # l
          /\ {req.ProtoFile[k].Name, req.ProtoFile[l].Name} \subseteq Designated
          /\ BoundServices(req.ProtoFile[k]) + BoundServices(req.ProtoFile[l]) >= 3
    /\ Count(ret.File, FetchModuleFileName) = 1
    /\ Len(fetchCalls) = 1

\* the fetch module was rendered and a readable file exists at its path
ProbedExistingFile ==
    /\ fetchCalls # <<>>
    /\ ~ fetchCalls[1].execErr
    /\ fetchCalls[1].probe[1].statErr = "nil"
    /\ fetchCalls[1].probe[1].readErr = "nil"

\* the content the fetch module is emitted with in this run
FetchContent == TrimSpace(FetchModuleTemplate(t[1].EnableStylingCheck))

\* C5: when a file exists at the fetch module's path, the response has no
\* fetch module entry exactly when the existing content equals the rendered
\* content; existing content that differs only by trailing white space
\* gets the entry.
C5_OmittedIffIdentical ==
    (ProbedExistingFile /\ pc = "Done") =>
        /\ Success
        /\ Count(ret.File, FetchModuleFileName) = 0
              <=> fetchCalls[1].probe[1].data = FetchContent
        /\ \A k \in DOMAIN ret.File :
              ret.File[k].Name = FetchModuleFileName => ret.File[k].Content = FetchContent
        /\ ( /\ fetchCalls[1].probe[1].data # FetchContent
             /\ TrimRight(fetchCalls[1].probe[1].data) = FetchContent )
              => Count(ret.File, FetchModuleFileName) = 1

C5_Witness ==
    /\ ProbedExistingFile
    /\ pc = "Done"
    /\ fetchCalls[1].probe[1].data = FetchContent \o <<"\n">>
    /\ Count(ret.File, FetchModuleFileName) = 1

\* "export default {}"
ExportDefault == <<"e","x","p","o","r","t"," ","d","e","f","a","u","l","t"," ","{","}">>

\* c is s without its leading and trailing white space, and nothing else removed
IsTrimOf(c, s) ==
    /\ c # <<>> => (c[1] \notin White /\ c[Len(c)] \notin White)
    /\ \E a, b \in 0..Len(s) :
          /\ a + Len(c) + b = Len(s)
          /\ \A k \in 1..a : s[k] \in White
          /\ \A k \in 1..Len(c) : s[a + k] = c[k]
          /\ \A k \in 1..b : s[a + Len(c) + k] \in White

\* C6: generateFile on an empty File IR does not execute the template and
\* yields exactly "export default {}"; on a non-empty File IR it executes
\* the template and, unless that fails, yields its output with the leading
\* and trailing white space removed and nothing else changed.
C6_EmptyPlaceholderOrTrimmedRender ==
    lastGen # <<>> =>
        LET g == lastGen[1]
        IN  IF IsEmpty(g.fileData)
            THEN /\ g.generated.executed = <<>>
                 /\ g.out = <<>>
                 /\ g.generated.err = "nil"
                 /\ g.generated.file[1].Content = ExportDefault
                 /\ g.generated.file[1].Content # <<>>
            ELSE /\ g.generated.executed # <<>>
                 /\ g.out # <<>>
                 /\ IF g.out[1].err
                    THEN g.generated.file = <<>> /\ g.generated.err # "nil"
                    ELSE IsTrimOf(g.generated.file[1].Content, g.out[1].text)

C6_Witness ==
    /\ lastGen # <<>>
    /\ ~ IsEmpty(lastGen[1].fileData)
    /\ lastGen[1].out # <<>>
    /\ ~ lastGen[1].out[1].err
    /\ lastGen[1].out[1].text = <<"U+00A0", "x", "U+0085">>
    /\ lastGen[1].generated.file[1].Content = <<"x">>
    /\ \E k \in DOMAIN resp : resp[k].Content = ExportDefault

\* C7: an error return carries no response, whatever was produced before;
\* every failure of analysis, of a file's render, or of the fetch module
\* ends in an error return; a response is returned only after every file
\* was visited, every designated file has its entry, and the fetch module,
\* if needed, was generated without error.
C7_NoPartialResponse ==
    /\ Failed => (~ ret.hasResp /\ ret.File = <<>>)
    /\ (lastGen # <<>> /\ lastGen[1].generated.err # "nil") => Failed
    /\ (fetchCalls # <<>> /\ fetchCalls[1].generated.err # "nil") => Failed
    /\ Success =>
          /\ ret.err = "nil"
          /\ Len(filesData) = Len(req.ProtoFile)
          /\ i > Len(filesData)
          /\ \A n \in Designated : Count(ret.File, TSFileName(n)) = 1
          /\ DesignatedNeedsFetch =>
                (Len(fetchCalls) = 1 /\ fetchCalls[1].generated.err = "nil")

C7_Witness ==
    /\ Failed
    /\ Len(resp) >= 1
    /\ ret.File = <<>>
    /\ ~ ret.hasResp

\* C8: a stat error other than "does not exist", and a read error, end the
\* run with an error; when the path does not exist the run succeeds and
\* the response ends with the rendered fetch module.
C8_ProbeErrors ==
    (fetchCalls # <<>> /\ ~ fetchCalls[1].execErr) =>
        LET probe == fetchCalls[1].probe[1]
        IN  /\ probe.statErr \notin {"nil", "ErrNotExist"}
                => (Failed /\ ~ ret.hasResp)
            /\ (probe.statErr = "nil" /\ probe.readErr # "nil")
                => (Failed /\ ~ ret.hasResp)
            /\ probe.statErr = "ErrNotExist"
                => /\ Success
                   /\ Count(ret.File, FetchModuleFileName) = 1
                   /\ ret.File[Len(ret.File)] =
                          [Name |-> FetchModuleFileName, Content |-> FetchContent]

C8_Witness ==
    /\ fetchCalls # <<>>
    /\ ~ fetchCalls[1].execErr
    /\ fetchCalls[1].probe[1].statErr = "ErrNotExist"
    /\ Success
    /\ Count(ret.File, FetchModuleFileName) = 1

\* the option map holds enable_styling_check with the value "true"
StylingRequested ==
    \E k \in DOMAIN paramsMap : k = "enable_styling_check" /\ paramsMap[k] = "true"

\* C9: the generator's flag is on exactly when the option map holds
\* enable_styling_check = "true", and every data.File a template is
\* executed with carries that value.
C9_StylingFlag ==
    /\ t # <<>> => (t[1].EnableStylingCheck <=> StylingRequested)
    /\ \A k \in DOMAIN filesData :
          k < i => (filesData[k].EnableStylingCheck <=> StylingRequested)
    /\ (lastGen # <<>> /\ lastGen[1].generated.executed # <<>>)
          => (lastGen[1].generated.executed[1].EnableStylingCheck <=> StylingRequested)
    /\ \A k \in DOMAIN fetchCalls :
          fetchCalls[k].generated.executed[1].EnableStylingCheck <=> StylingRequested

C9_Witness ==
    /\ EnableStylingCheckOption \in DOMAIN paramsMap
    /\ paramsMap[EnableStylingCheckOption] = "true"
    /\ lastGen # <<>>
    /\ lastGen[1].generated.executed # <<>>
    /\ lastGen[1].generated.executed[1].EnableStylingCheck
    /\ Len(resp) >= 2

\* C10: in a successful response a fetch module entry is the last entry,
\* the response has one entry per designated file plus at most the fetch
\* module, and generateFetchModule runs only after the loop has visited
\* every file.
C10_HelperLast ==
    /\ Success =>
          /\ \A k \in DOMAIN ret.File :
                ret.File[k].Name = FetchModuleFileName => k = Len(ret.File)
          /\ Len(ret.File) \in {Cardinality(Designated), Cardinality(Designated) + 1}
          /\ Len(ret.File) = Cardinality(Designated) + Count(ret.File, FetchModuleFileName)
    /\ fetchCalls # <<>> => (i > Len(filesData) /\ pc = "Done")

C10_Witness ==
    /\ Success
    /\ Cardinality(Designated) >= 2
    /\ Len(ret.File) = Cardinality(Designated) + 1
    /\ ret.File[Len(ret.File)].Name = FetchModuleFileName

====
